---- MODULE Spec2Model ----
(***************************************************************************)
(* Admin account authentication and confirmation flow: register, login,    *)
(* verifyConfirm and resendConfirmOtp of the admin auth controller, run as  *)
(* concurrent requests against the admins collection and the mailer; and,   *)
(* as a specification of its own, StateStore, StateUpdate and StateDelete   *)
(* of the state controller against the states collection.                   *)
(*                                                                          *)
(* Strings are sequences of one-character strings.  Every request is a     *)
(* record in a slot; each asynchronous boundary of its handler (a store     *)
(* query, bcrypt, the mailer) is one action, so requests interleave exactly *)
(* where the event loop lets them.                                          *)
(***************************************************************************)
EXTENDS Integers, Sequences, FiniteSets, TLC

\* ------------------------------------------------------------------ bounds
\* Requests that may be in flight at the same time.
MaxInFlight == 2
\* Requests submitted in one behaviour.
MaxSubmit == 3

\* --------------------------------------------------------- program constants
\* utility.randomNumber(6): the length of the one-time code.
OtpLength == 6
\* body("password").isLength({ min: 6 }) of register.
MinPasswordLength == 6

\* ------------------------------------------------------------------ strings
\* JavaScript null / undefined of a String path; no string of digits equals it.
Null == <<"null">>

EmailA == <<"a", "@", "x", ".", "c", "o">>
EmailB == <<"b", "@", "x", ".", "c", "o">>
\* No "@": rejected by isEmail.
EmailBad == <<"a", "x", ".", "c", "o">>
\* Trailing blank: passes isLength, is trimmed to EmailA before isEmail.
EmailASpace == <<"a", "@", "x", ".", "c", "o", " ">>
Phone1 == <<"5", "5", "5", "-", "0", "1">>
Phone2 == <<"5", "5", "5", "-", "0", "2">>
Secret1 == <<"s", "e", "c", "r", "e", "t", "1">>
Hunter2 == <<"h", "u", "n", "t", "e", "r", "2">>
\* Fewer than MinPasswordLength characters.
ShortPw == <<"a", "b", "c">>
Jane == <<"J", "a", "n", "e">>
Doe == <<"D", "o", "e">>
\* Escaped to "J&lt;", which is not alphanumeric.
JLt == <<"J", "<">>

Letters == {"a", "b", "c", "e", "h", "n", "o", "r", "s", "t", "u", "x", "J", "D"}
DigitChars == {"0", "1", "2", "3", "4", "5", "6", "7", "8", "9"}

\* validator.js trim(): strips leading and trailing whitespace.
RECURSIVE LTrim(_)
LTrim(s) == IF s # <<>> /\ Head(s) = " " THEN LTrim(Tail(s)) ELSE s

RECURSIVE RTrim(_)
RTrim(s) == IF s # <<>> /\ s[Len(s)] = " " THEN RTrim(SubSeq(s, 1, Len(s) - 1)) ELSE s

Trim(s) == RTrim(LTrim(s))

\* validator.js escape(): replaces the HTML-special characters by entities.
EscapeChar(c) ==
  CASE c = "&" -> <<"&", "a", "m", "p", ";">>
    [] c = "<" -> <<"&", "l", "t", ";">>
    [] c = ">" -> <<"&", "g", "t", ";">>
    [] c = "/" -> <<"&", "#", "x", "2", "F", ";">>
    [] OTHER -> <<c>>

RECURSIVE Escape(_)
Escape(s) == IF s = <<>> THEN <<>> ELSE EscapeChar(Head(s)) \o Escape(Tail(s))

\* The .trim().escape() sanitizers every body() chain applies to its field.
Sanitize(s) == Escape(Trim(s))

\* validator.js isAlphanumeric(): non-empty, letters and digits only.
IsAlphanumeric(s) == s # <<>> /\ \A i \in 1..Len(s) : s[i] \in Letters \cup DigitChars

\* validator.js isEmail(): one "@", a non-empty local part, a dotted domain.
IsEmail(s) ==
  /\ Cardinality({i \in 1..Len(s) : s[i] = "@"}) = 1
  /\ \A i \in 1..Len(s) : s[i] \in Letters \cup DigitChars \cup {"@", "."}
  /\ LET at == CHOOSE i \in 1..Len(s) : s[i] = "@" IN
       /\ at > 1
       /\ \E j \in (at + 2)..(Len(s) - 1) : s[j] = "."

\* Number.prototype.toString / mongoose's cast of a Number to a String path:
\* the decimal digits of n, most significant first.
DigitOf(d) ==
  CASE d = 0 -> "0" [] d = 1 -> "1" [] d = 2 -> "2" [] d = 3 -> "3" [] d = 4 -> "4"
    [] d = 5 -> "5" [] d = 6 -> "6" [] d = 7 -> "7" [] d = 8 -> "8" [] d = 9 -> "9"

RECURSIVE NumToStr(_)
NumToStr(n) == IF n < 10 THEN <<DigitOf(n)>> ELSE Append(NumToStr(n \div 10), DigitOf(n % 10))

\* utility.randomNumber(length): a Number of `length` decimal digits; the
\* two results the model lets it draw.
randomNumber(length) == IF length = 6 THEN {123456, 654321} ELSE {}

\* bcrypt.hash: a one-way tagging of the plaintext (the salt is abstracted).
BcryptHash(pw) == <<"$", "2", "b", "$">> \o pw

\* bcrypt.compare(plain, hash).
BcryptCompare(pw, hash) == hash = BcryptHash(pw)


\* ------------------------------------------------------------------- state
VARIABLES
  admins,   \* the admins collection, in insertion order
  mails,    \* the mails the mailer has delivered, oldest first
  req,      \* the request held by each slot
  nsub,     \* requests submitted so far
  states    \* the states collection, in insertion order

vars == <<admins, mails, req, nsub, states>>

Slots == 1..MaxInFlight

\* A document of AdminSchema with the schema's defaults applied to the paths
\* the constructor was not given (isConfirmed, is_active, status: 1, otpTries: 0).
\* The descriptive paths (designation, address, city, state, post_code, image)
\* are copied through by register and read by nothing; they are left out.
AdminModel(id, first, last, email, hash, otp, phone) ==
  [_id |-> id, first_name |-> first, last_name |-> last, email_id |-> email,
   password |-> hash, isConfirmed |-> TRUE, is_active |-> TRUE,
   confirmOTP |-> otp, otpTries |-> 0, status |-> TRUE, phone_number |-> phone]

\* What findOne resolves to when no document matches (null).
NoUser ==
  [_id |-> 0, first_name |-> <<>>, last_name |-> <<>>, email_id |-> <<>>,
   password |-> <<>>, isConfirmed |-> FALSE, is_active |-> FALSE,
   confirmOTP |-> Null, otpTries |-> 0, status |-> FALSE, phone_number |-> <<>>]

\* jwt.sign(payload, secret, options): the signed claims.
NoToken == [_id |-> 0, first_name |-> <<>>, last_name |-> <<>>, email_id |-> <<>>]

JwtSign(payload) ==
  [_id |-> payload._id, first_name |-> payload.first_name,
   last_name |-> payload.last_name, email_id |-> payload.email_id]

\* The userData object of the success responses.
NoData == [_id |-> 0, first_name |-> <<>>, last_name |-> <<>>, email_id |-> <<>>,
           token |-> NoToken]

UserData(user, token) ==
  [_id |-> user._id, first_name |-> user.first_name, last_name |-> user.last_name,
   email_id |-> user.email_id, token |-> token]

\* The calls of the apiResponse helper: which one, its message and its data.
successResponse(msg) ==
  [kind |-> "success", message |-> msg, errors |-> <<>>, data |-> NoData]

successResponseWithData(msg, data) ==
  [kind |-> "success", message |-> msg, errors |-> <<>>, data |-> data]

ErrorResponse(msg) ==
  [kind |-> "error", message |-> msg, errors |-> <<>>, data |-> NoData]

validationErrorWithData(msg, errs) ==
  [kind |-> "validationError", message |-> msg, errors |-> errs, data |-> NoData]

unauthorizedResponse(msg) ==
  [kind |-> "unauthorized", message |-> msg, errors |-> <<>>, data |-> NoData]

\* AdminModel.findOne({ email_id: e }): the first matching document.
FindOneByEmail(store, e) ==
  LET hits == {i \in 1..Len(store) : store[i].email_id = e} IN
    IF hits = {} THEN NoUser
    ELSE store[CHOOSE i \in hits : \A j \in hits : i <= j]

\* AdminModel.findOne({ phone_number: p }).
FindOneByPhone(store, p) ==
  LET hits == {i \in 1..Len(store) : store[i].phone_number = p} IN
    IF hits = {} THEN NoUser
    ELSE store[CHOOSE i \in hits : \A j \in hits : i <= j]

\* AdminModel.findOneAndUpdate({ email_id: e }, { isConfirmed: c, confirmOTP: o }):
\* sets both paths of the first matching document, does nothing without one.
FindOneAndUpdate(store, e, c, o) ==
  LET hit == FindOneByEmail(store, e) IN
    [i \in 1..Len(store) |->
       IF hit # NoUser /\ store[i]._id = hit._id
       THEN [store[i] EXCEPT !.isConfirmed = c, !.confirmOTP = o]
       ELSE store[i]]

\* user.save() of a new document: an insert; the schema declares no unique
\* index, so the collection takes any document.
SaveNew(store, doc) == Append(store, doc)

\* SaveLoaded that writes the whole document, its flags at their defaults.
SaveLoadedDefaults(store, loaded, c, o) ==
  [i \in 1..Len(store) |->
     IF store[i]._id = loaded._id
     THEN [loaded EXCEPT !.isConfirmed = c, !.confirmOTP = o,
                         !.status = TRUE, !.is_active = TRUE]
     ELSE store[i]]

\* user.save() of a loaded document after `user.isConfirmed = 0;
\* user.confirmOTP = otp`: mongoose writes, by _id, the paths whose value
\* differs from the one loaded (the modified paths) and no others.
SaveLoaded(store, loaded, c, o) ==
  [i \in 1..Len(store) |->
     IF store[i]._id = loaded._id
     THEN [store[i] EXCEPT
             !.isConfirmed = IF loaded.isConfirmed # c THEN c ELSE @,
             !.confirmOTP = IF loaded.confirmOTP # o THEN o ELSE @]
     ELSE store[i]]

\* The html of the two mails, by template and code.
ConfirmHtml(otp) == [template |-> "Please Confirm your Account.", otp |-> NumToStr(otp)]

LoginHtml(otp) == [template |-> "Please Login your Account.", otp |-> NumToStr(otp)]

\* mailer.send(from, to, subject, html), delivered.
Mail(to, html) == [to |-> to, subject |-> "Confirm Account", html |-> html]

\* ---------------------------------------------------------------- requests
\* pc "done": the handler has nothing left to run.  pc "lost": a promise of
\* the handler rejected with no handler attached; nothing more runs.
\* resps are the calls the handler made on apiResponse, in order.  Three
\* fields are history, kept for the properties and read by no action: sent
\* and wrote count the mails this request had delivered and the store writes
\* it had applied; inUse tells whether, when a register request arrived, its
\* email or phone number already belonged to a document of the collection.
Finished == {"done", "lost"}

IdleReq ==
  [op |-> "idle", seq |-> 0, pc |-> "done",
   first_name |-> <<>>, last_name |-> <<>>, email_id |-> <<>>,
   phone_number |-> <<>>, password |-> <<>>, otp |-> <<>>,
   errors |-> <<>>, user |-> NoUser, code |-> 0,
   resps |-> <<>>, sent |-> 0, wrote |-> 0, inUse |-> FALSE]

\* A request enters the lowest slot whose request has finished.
FreeSlot(r) ==
  /\ req[r].pc \in Finished
  /\ \A q \in Slots : q < r => req[q].pc \notin Finished
  /\ nsub < MaxSubmit

Respond(rq, envelope, nextpc) ==
  [rq EXCEPT !.resps = Append(@, envelope), !.pc = nextpc]

\* The messages a chain adds: one per failed validator, in chain order.
Errs(cond1, msg1, cond2, msg2) ==
  (IF cond1 THEN <<msg1>> ELSE <<>>) \o (IF cond2 THEN <<msg2>> ELSE <<>>)

\* body("email_id").isLength({ min: 1 }).trim().escape().isEmail() on the raw value.
EmailErrors(raw) ==
  Errs(Len(raw) < 1, "Email must be specified.",
       ~IsEmail(Sanitize(raw)), "Email must be a valid email address.")

\* body(name).isLength({ min: 1 }).trim().escape().isAlphanumeric().
NameErrors(raw, specified, alnum) ==
  Errs(Len(raw) < 1, specified, ~IsAlphanumeric(Sanitize(raw)), alnum)


\* ---------------------------------------------------------------- register
\* The request bodies register is given: one, one that differs from it in
\* the email only, one that differs from it in the phone number only, and one
\* that fails the first_name, email_id and password chains.
RegisterInputs ==
  {[first_name |-> Jane, last_name |-> Doe, email_id |-> EmailA,
    phone_number |-> Phone1, password |-> Secret1],
   [first_name |-> Jane, last_name |-> Doe, email_id |-> EmailB,
    phone_number |-> Phone1, password |-> Secret1],
   [first_name |-> Jane, last_name |-> Doe, email_id |-> EmailA,
    phone_number |-> Phone2, password |-> Secret1],
   [first_name |-> JLt, last_name |-> Doe, email_id |-> EmailBad,
    phone_number |-> Phone2, password |-> ShortPw]}

\* emailInUse that never rejects.
emailInUseNever(store, value) == FALSE

\* The custom validator of the email chain rejects ("E-mail already in use")
\* when findOne by email resolves to a document.
emailInUse(store, value) == FindOneByEmail(store, value) # NoUser

\* The custom validator of the phone chain ("Phone number already in use").
phoneInUse(store, value) == FindOneByPhone(store, value) # NoUser

\* The request arrives; the first_name, last_name and email_id chains run up
\* to the email chain's custom validator, which queries the store.  The
\* phone_number and password chains have not run: their fields are still raw.
register(r, in) ==
  /\ FreeSlot(r)
  /\ nsub' = nsub + 1
  /\ req' = [req EXCEPT ![r] =
       [IdleReq EXCEPT
          !.op = "register", !.seq = nsub + 1, !.pc = "emailInUse",
          !.first_name = Sanitize(in.first_name),
          !.last_name = Sanitize(in.last_name),
          !.email_id = Sanitize(in.email_id),
          !.phone_number = in.phone_number,
          !.password = in.password,
          !.inUse = \/ FindOneByEmail(admins, Sanitize(in.email_id)) # NoUser
                    \/ FindOneByPhone(admins, Sanitize(in.phone_number)) # NoUser,
          !.errors =
            NameErrors(in.first_name, "First name must be specified.",
                       "First name has non-alphanumeric characters.")
            \o NameErrors(in.last_name, "Last name must be specified.",
                          "Last name has non-alphanumeric characters.")
            \o EmailErrors(in.email_id)]]
  /\ UNCHANGED <<admins, mails, states>>

\* The email chain's custom validator settles: findOne by email; a hit, or a
\* failed query, rejects and is one more validation error.  The phone chain
\* then runs up to its own custom validator.
registerEmailInUse(r) ==
  /\ req[r].op = "register" /\ req[r].pc = "emailInUse"
  /\ \E storeOk \in BOOLEAN :
       req' = [req EXCEPT ![r] =
         [@ EXCEPT
            !.pc = "phoneInUse",
            !.phone_number = Sanitize(@),
            !.errors =
              @ \o Errs(storeOk /\ emailInUse(admins, req[r].email_id),
                        "E-mail already in use", ~storeOk, "StoreError")
                \o Errs(Len(req[r].phone_number) < 1, "Phone must be specified.",
                        FALSE, "")]]
  /\ UNCHANGED <<admins, mails, nsub, states>>

\* registerPhoneInUse without the test of the validation result.
registerPhoneInUseUnchecked(r) ==
  /\ req[r].op = "register" /\ req[r].pc = "phoneInUse"
  /\ \E storeOk \in BOOLEAN :
       LET errs == req[r].errors
                   \o Errs(storeOk /\ phoneInUse(admins, req[r].phone_number),
                           "Phone number already in use", ~storeOk, "StoreError")
                   \o Errs(Len(req[r].password) < MinPasswordLength,
                           "Password must be 6 characters or greater.", FALSE, "")
       IN req' = [req EXCEPT ![r] =
            [@ EXCEPT !.pc = "handler", !.password = Sanitize(@), !.errors = errs]]
  /\ UNCHANGED <<admins, mails, nsub, states>>

\* The phone chain's custom validator settles: findOne by phone.  In the same
\* turn the password chain runs and the handler tests the validation result:
\* errors end the request, otherwise bcrypt.hash is issued.
registerPhoneInUse(r) ==
  /\ req[r].op = "register" /\ req[r].pc = "phoneInUse"
  /\ \E storeOk \in BOOLEAN :
       LET errs == req[r].errors
                   \o Errs(storeOk /\ phoneInUse(admins, req[r].phone_number),
                           "Phone number already in use", ~storeOk, "StoreError")
                   \o Errs(Len(req[r].password) < MinPasswordLength,
                           "Password must be 6 characters or greater.", FALSE, "")
           rq == [req[r] EXCEPT !.password = Sanitize(@), !.errors = errs]
       IN req' = [req EXCEPT ![r] =
            IF errs # <<>>
            THEN Respond(rq, validationErrorWithData("Validation Error.", errs), "done")
            ELSE [rq EXCEPT !.pc = "handler"]]
  /\ UNCHANGED <<admins, mails, nsub, states>>

\* The callback of bcrypt.hash: the code is drawn, the document built and the
\* mail handed to the mailer.
registerHandler(r) ==
  /\ req[r].op = "register" /\ req[r].pc = "handler"
  /\ \E otp \in randomNumber(OtpLength) :
       req' = [req EXCEPT ![r] =
         [@ EXCEPT
            !.pc = "mail", !.code = otp,
            !.user = AdminModel(req[r].seq + 1, req[r].first_name, req[r].last_name,
                                req[r].email_id, BcryptHash(req[r].password),
                                NumToStr(otp), req[r].phone_number)]]
  /\ UNCHANGED <<admins, mails, nsub, states>>

\* registerMailer that goes on to save whether or not the mail was delivered.
registerMailerSavesAnyway(r) ==
  /\ req[r].op = "register" /\ req[r].pc = "mail"
  /\ \/ /\ mails' = Append(mails, Mail(req[r].email_id, ConfirmHtml(req[r].code)))
        /\ req' = [req EXCEPT ![r] = [@ EXCEPT !.pc = "save", !.sent = @ + 1]]
     \/ /\ req' = [req EXCEPT ![r] = [@ EXCEPT !.pc = "save"]]
        /\ UNCHANGED mails
  /\ UNCHANGED <<admins, nsub, states>>

\* mailer.send settles: delivered, the handler goes on to save; failed, the
\* catch answers with ErrorResponse.
registerMailer(r) ==
  /\ req[r].op = "register" /\ req[r].pc = "mail"
  /\ \/ /\ mails' = Append(mails, Mail(req[r].email_id, ConfirmHtml(req[r].code)))
        /\ req' = [req EXCEPT ![r] = [@ EXCEPT !.pc = "save", !.sent = @ + 1]]
     \/ /\ req' = [req EXCEPT ![r] = Respond(@, ErrorResponse("DeliveryError"), "done")]
        /\ UNCHANGED mails
  /\ UNCHANGED <<admins, nsub, states>>

\* registerSave that answers success whether or not the save went through.
registerSaveUnchecked(r) ==
  /\ req[r].op = "register" /\ req[r].pc = "save"
  /\ \/ /\ admins' = SaveNew(admins, req[r].user)
        /\ req' = [req EXCEPT ![r] =
             [Respond(@, successResponseWithData("Registration Success.",
                                                 UserData(req[r].user, NoToken)), "done")
                EXCEPT !.wrote = @ + 1]]
     \/ /\ req' = [req EXCEPT ![r] =
             Respond(@, successResponseWithData("Registration Success.",
                                                UserData(req[r].user, NoToken)), "done")]
        /\ UNCHANGED admins
  /\ UNCHANGED <<mails, nsub, states>>

\* user.save settles: the document is in the collection and the success
\* response carries its public fields, or ErrorResponse.
registerSave(r) ==
  /\ req[r].op = "register" /\ req[r].pc = "save"
  /\ \/ /\ admins' = SaveNew(admins, req[r].user)
        /\ req' = [req EXCEPT ![r] =
             [Respond(@, successResponseWithData("Registration Success.",
                                                 UserData(req[r].user, NoToken)), "done")
                EXCEPT !.wrote = @ + 1]]
     \/ /\ req' = [req EXCEPT ![r] = Respond(@, ErrorResponse("StoreError"), "done")]
        /\ UNCHANGED admins
  /\ UNCHANGED <<mails, nsub, states>>


\* ------------------------------------------------------------------- login
LoginInputs ==
  {[email_id |-> EmailASpace, password |-> Secret1],
   [email_id |-> EmailA, password |-> Hunter2],
   [email_id |-> EmailBad, password |-> <<>>]}

\* The request arrives and both chains run; validation errors end it,
\* otherwise findOne by email is issued.
login(r, in) ==
  /\ FreeSlot(r)
  /\ nsub' = nsub + 1
  /\ LET errs == EmailErrors(in.email_id)
                 \o Errs(Len(in.password) < 1, "Password must be specified.", FALSE, "")
         rq == [IdleReq EXCEPT
                  !.op = "login", !.pc = "findOne",
                  !.email_id = Sanitize(in.email_id),
                  !.password = Sanitize(in.password),
                  !.errors = errs]
     IN req' = [req EXCEPT ![r] =
          IF errs # <<>>
          THEN Respond(rq, validationErrorWithData("Validation Error.", errs), "done")
          ELSE rq]
  /\ UNCHANGED <<admins, mails, states>>

\* LoginNoUser with a message of its own.
LoginNoUserTelling == unauthorizedResponse("Specified email not found.")

\* The answer of login when findOne resolves to no document.
LoginNoUser == unauthorizedResponse("Email or Password wrong.")

\* findOne settles.  No document: the generic Unauthorized.  A document:
\* bcrypt.compare is started.  A rejected query has no handler attached.
loginFindOne(r) ==
  /\ req[r].op = "login" /\ req[r].pc = "findOne"
  /\ \/ LET user == FindOneByEmail(admins, req[r].email_id) IN
          req' = [req EXCEPT ![r] =
            IF user # NoUser
            THEN [@ EXCEPT !.user = user, !.pc = "compare"]
            ELSE Respond(@, LoginNoUser, "done")]
     \/ req' = [req EXCEPT ![r] = [@ EXCEPT !.pc = "lost"]]
  /\ UNCHANGED <<admins, mails, nsub, states>>

\* LoginRefusal with the two account checks in the other order.
LoginRefusalStatusFirst(user, same) ==
  IF same
  THEN IF user.status
       THEN IF user.isConfirmed
            THEN "none"
            ELSE "Account is not confirmed. Please confirm your account."
       ELSE "Account is not active. Please contact admin."
  ELSE "Email or Password wrong."

\* LoginRefusal without the check of status.
LoginRefusalNoStatus(user, same) ==
  IF same
  THEN IF user.isConfirmed
       THEN "none"
       ELSE "Account is not confirmed. Please confirm your account."
  ELSE "Email or Password wrong."

\* The envelope the bcrypt.compare callback answers with when it does not go
\* on to the mailer; "none" when it does.
LoginRefusal(user, same) ==
  IF same
  THEN IF user.isConfirmed
       THEN IF user.status
            THEN "none"
            ELSE "Account is not active. Please contact admin."
       ELSE "Account is not confirmed. Please confirm your account."
  ELSE "Email or Password wrong."

\* The bcrypt.compare callback: on a match of a confirmed account with status
\* set, a code is drawn and mailed; every other case is Unauthorized.
loginCompare(r) ==
  /\ req[r].op = "login" /\ req[r].pc = "compare"
  /\ LET same == BcryptCompare(req[r].password, req[r].user.password)
         refusal == LoginRefusal(req[r].user, same)
     IN IF refusal = "none"
        THEN \E otp \in randomNumber(OtpLength) :
               req' = [req EXCEPT ![r] =
                 [@ EXCEPT !.code = otp, !.pc = "mail"]]
        ELSE req' = [req EXCEPT ![r] =
               Respond(@, unauthorizedResponse(refusal), "done")]
  /\ UNCHANGED <<admins, mails, nsub, states>>

\* mailer.send settles.  Delivered: findOneAndUpdate is issued and, without
\* waiting for it, the token is signed and the success response sent.  A
\* failed delivery has no handler attached.
loginMailer(r) ==
  /\ req[r].op = "login" /\ req[r].pc = "mail"
  /\ \/ /\ mails' = Append(mails, Mail(req[r].email_id, LoginHtml(req[r].code)))
        /\ req' = [req EXCEPT ![r] =
             [Respond(@, successResponseWithData("Login Success.",
                           UserData(req[r].user, JwtSign(req[r].user))), "update")
                EXCEPT !.sent = @ + 1]]
     \/ /\ req' = [req EXCEPT ![r] = [@ EXCEPT !.pc = "lost"]]
        /\ UNCHANGED mails
  /\ UNCHANGED <<admins, nsub, states>>

\* The findOneAndUpdate of login settles: applied, or its catch calls
\* ErrorResponse on the response already sent.
loginUpdate(r) ==
  /\ req[r].op = "login" /\ req[r].pc = "update"
  /\ \/ /\ admins' = FindOneAndUpdate(admins, req[r].email_id, TRUE, NumToStr(req[r].code))
        /\ req' = [req EXCEPT ![r] = [@ EXCEPT !.pc = "done", !.wrote = @ + 1]]
     \/ /\ req' = [req EXCEPT ![r] = Respond(@, ErrorResponse("StoreError"), "done")]
        /\ UNCHANGED admins
  /\ UNCHANGED <<mails, nsub, states>>


\* ----------------------------------------------------------- verifyConfirm
VerifyInputs ==
  [email_id : {EmailA}, otp : {NumToStr(n) : n \in randomNumber(OtpLength)}]
  \cup {[email_id |-> EmailBad, otp |-> <<>>]}

\* LooseEquals that takes any code.
LooseEqualsAny(stored, given) == TRUE

\* user.confirmOTP == req.body.otp: both are strings, or the stored one is
\* null, which no string equals.
LooseEquals(stored, given) == stored # Null /\ stored = given

\* The request arrives and both chains run; validation errors end it,
\* otherwise findOne by email is issued.
verifyConfirm(r, in) ==
  /\ FreeSlot(r)
  /\ nsub' = nsub + 1
  /\ LET errs == EmailErrors(in.email_id)
                 \o Errs(Len(in.otp) < 1, "OTP must be specified.", FALSE, "")
         rq == [IdleReq EXCEPT
                  !.op = "verifyConfirm", !.pc = "findOne",
                  !.email_id = Sanitize(in.email_id),
                  !.otp = Sanitize(in.otp),
                  !.errors = errs]
     IN req' = [req EXCEPT ![r] =
          IF errs # <<>>
          THEN Respond(rq, validationErrorWithData("Validation Error.", errs), "done")
          ELSE rq]
  /\ UNCHANGED <<admins, mails, states>>

\* verifyFindOne that refuses the stored code once another verifyConfirm on
\* the account has been refused.
verifyFindOneLimited(r) ==
  /\ req[r].op = "verifyConfirm" /\ req[r].pc = "findOne"
  /\ \/ LET user == FindOneByEmail(admins, req[r].email_id)
             tried == \E q \in Slots :
                        /\ req[q].op = "verifyConfirm" /\ req[q].pc = "done"
                        /\ req[q].user # NoUser /\ req[q].user._id = user._id
                        /\ Len(req[q].resps) = 1
                        /\ req[q].resps[1].kind = "unauthorized"
         IN req' = [req EXCEPT ![r] =
              IF user = NoUser
              THEN Respond(@, unauthorizedResponse("Specified email not found."), "done")
              ELSE IF LooseEquals(user.confirmOTP, req[r].otp) /\ ~tried
              THEN Respond([@ EXCEPT !.user = user],
                           successResponseWithData("Login Success.",
                                                   UserData(user, JwtSign(user))),
                           "update")
              ELSE Respond([@ EXCEPT !.user = user],
                           unauthorizedResponse("Otp does not match"), "done")]
     \/ req' = [req EXCEPT ![r] = [@ EXCEPT !.pc = "lost"]]
  /\ UNCHANGED <<admins, mails, nsub, states>>

\* findOne settles and its callback runs to the end: no document, or a code
\* that differs, is Unauthorized; on a match findOneAndUpdate is issued and,
\* without waiting for it, the token is signed and the success response sent.
verifyFindOne(r) ==
  /\ req[r].op = "verifyConfirm" /\ req[r].pc = "findOne"
  /\ \/ LET user == FindOneByEmail(admins, req[r].email_id) IN
          req' = [req EXCEPT ![r] =
            IF user = NoUser
            THEN Respond(@, unauthorizedResponse("Specified email not found."), "done")
            ELSE IF LooseEquals(user.confirmOTP, req[r].otp)
            THEN Respond([@ EXCEPT !.user = user],
                         successResponseWithData("Login Success.",
                                                 UserData(user, JwtSign(user))),
                         "update")
            ELSE Respond([@ EXCEPT !.user = user],
                         unauthorizedResponse("Otp does not match"), "done")]
     \/ req' = [req EXCEPT ![r] = [@ EXCEPT !.pc = "lost"]]
  /\ UNCHANGED <<admins, mails, nsub, states>>

\* The findOneAndUpdate of verifyConfirm settles: applied, or its catch calls
\* ErrorResponse on the response already sent.
verifyUpdate(r) ==
  /\ req[r].op = "verifyConfirm" /\ req[r].pc = "update"
  /\ \/ /\ admins' = FindOneAndUpdate(admins, req[r].email_id, TRUE, Null)
        /\ req' = [req EXCEPT ![r] = [@ EXCEPT !.pc = "done", !.wrote = @ + 1]]
     \/ /\ req' = [req EXCEPT ![r] = Respond(@, ErrorResponse("StoreError"), "done")]
        /\ UNCHANGED admins
  /\ UNCHANGED <<mails, nsub, states>>

\* -------------------------------------------------------- resendConfirmOtp
ResendInputs == [email_id : {EmailA, EmailBad}]

\* The request arrives and the email chain runs.
resendConfirmOtp(r, in) ==
  /\ FreeSlot(r)
  /\ nsub' = nsub + 1
  /\ LET errs == EmailErrors(in.email_id)
         rq == [IdleReq EXCEPT
                  !.op = "resendConfirmOtp", !.pc = "findOne",
                  !.email_id = Sanitize(in.email_id),
                  !.errors = errs]
     IN req' = [req EXCEPT ![r] =
          IF errs # <<>>
          THEN Respond(rq, validationErrorWithData("Validation Error.", errs), "done")
          ELSE rq]
  /\ UNCHANGED <<admins, mails, states>>

\* findOne settles: no document is Unauthorized; otherwise (the "already
\* confirmed" test is `if (true)`) a code is drawn and mailed.
resendFindOne(r) ==
  /\ req[r].op = "resendConfirmOtp" /\ req[r].pc = "findOne"
  /\ \/ LET user == FindOneByEmail(admins, req[r].email_id) IN
          IF user = NoUser
          THEN req' = [req EXCEPT ![r] =
                 Respond(@, unauthorizedResponse("Specified email not found."), "done")]
          ELSE \E otp \in randomNumber(OtpLength) :
                 req' = [req EXCEPT ![r] =
                   [@ EXCEPT !.user = user, !.code = otp, !.pc = "mail"]]
     \/ req' = [req EXCEPT ![r] = [@ EXCEPT !.pc = "lost"]]
  /\ UNCHANGED <<admins, mails, nsub, states>>

\* mailer.send settles.  Delivered: the loaded document is changed and its
\* save issued.  A failed delivery has no handler attached.
resendMailer(r) ==
  /\ req[r].op = "resendConfirmOtp" /\ req[r].pc = "mail"
  /\ \/ /\ mails' = Append(mails, Mail(req[r].email_id, LoginHtml(req[r].code)))
        /\ req' = [req EXCEPT ![r] = [@ EXCEPT !.pc = "save", !.sent = @ + 1]]
     \/ /\ req' = [req EXCEPT ![r] = [@ EXCEPT !.pc = "lost"]]
        /\ UNCHANGED mails
  /\ UNCHANGED <<admins, nsub, states>>

\* user.save settles: written and acknowledged, or ErrorResponse.
resendSave(r) ==
  /\ req[r].op = "resendConfirmOtp" /\ req[r].pc = "save"
  /\ \/ /\ admins' = SaveLoaded(admins, req[r].user, FALSE, NumToStr(req[r].code))
        /\ req' = [req EXCEPT ![r] =
             [Respond(@, successResponse("Confirm otp sent."), "done")
                EXCEPT !.wrote = @ + 1]]
     \/ /\ req' = [req EXCEPT ![r] = Respond(@, ErrorResponse("StoreError"), "done")]
        /\ UNCHANGED admins
  /\ UNCHANGED <<mails, nsub, states>>

\* ----------------------------------------------------------- specification
\* The collection before the first request: empty, or one admin of EmailA
\* with password Secret1, its flags and stored code as an operator or an
\* earlier run may have left them.
InitialStores ==
  {<<>>} \cup
  {<<[AdminModel(1, Jane, Doe, EmailA, BcryptHash(Secret1),
                 IF c THEN Null ELSE NumToStr(123456), Phone1)
        EXCEPT !.isConfirmed = c, !.is_active = f[1], !.status = f[2]]>> :
     c \in BOOLEAN, f \in {<<TRUE, TRUE>>, <<FALSE, TRUE>>, <<TRUE, FALSE>>}}

Init ==
  /\ admins \in InitialStores
  /\ mails = <<>>
  /\ req = [r \in Slots |-> IdleReq]
  /\ nsub = 0
  /\ states = <<>>

Next ==
  \/ \E r \in Slots, in \in RegisterInputs : register(r, in)
  \/ \E r \in Slots : registerEmailInUse(r)
  \/ \E r \in Slots : registerPhoneInUse(r)
  \/ \E r \in Slots : registerHandler(r)
  \/ \E r \in Slots : registerMailer(r)
  \/ \E r \in Slots : registerSave(r)
  \/ \E r \in Slots, in \in LoginInputs : login(r, in)
  \/ \E r \in Slots : loginFindOne(r)
  \/ \E r \in Slots : loginCompare(r)
  \/ \E r \in Slots : loginMailer(r)
  \/ \E r \in Slots : loginUpdate(r)
  \/ \E r \in Slots, in \in VerifyInputs : verifyConfirm(r, in)
  \/ \E r \in Slots : verifyFindOne(r)
  \/ \E r \in Slots : verifyUpdate(r)
  \/ \E r \in Slots, in \in ResendInputs : resendConfirmOtp(r, in)
  \/ \E r \in Slots : resendFindOne(r)
  \/ \E r \in Slots : resendMailer(r)
  \/ \E r \in Slots : resendSave(r)

Spec == Init /\ [][Next]_vars


\* ------------------------------------------------------- state controller
\* StateStore, StateUpdate and StateDelete, behind the auth middleware (the
\* requests here have passed it).  The slots hold state requests; the admins
\* collection and the mailer take no part.
Goa == <<"G", "o", "a">>
GoaSpace == <<"G", "o", "a", " ">>
Kerala == <<"K", "e", "r", "a", "l", "a">>
Go == <<"G", "o">>

\* The shortest state_name StateStore takes, and StateUpdate.
MinStoreNameLength == 3
MinUpdateNameLength == 1

\* A document of the states collection.  The schema of StateModel is not
\* among the sources; like AdminSchema it is taken to declare no unique
\* index, so the collection holds whatever the handlers write.
StateModel(id, name) == [_id |-> id, state_name |-> name]

NoState == [_id |-> 0, state_name |-> <<>>]

\* mongoose.Types.ObjectId.isValid(req.params.id): 0 stands for a malformed id.
IsValidId(id) == id # 0

\* StateModel.findOne({ state_name: value }).
StateFindOne(store, name) ==
  LET hits == {i \in 1..Len(store) : store[i].state_name = name} IN
    IF hits = {} THEN NoState
    ELSE store[CHOOSE i \in hits : \A j \in hits : i <= j]

\* StateModel.findById(id).
StateFindById(store, id) ==
  LET hits == {i \in 1..Len(store) : store[i]._id = id} IN
    IF hits = {} THEN NoState ELSE store[CHOOSE i \in hits : TRUE]

\* category.save() of a new document.
StateSave(store, doc) == Append(store, doc)

\* StateModel.findByIdAndUpdate(id, category, {}): sets state_name on the
\* document of that id, does nothing without one.
StateFindByIdAndUpdate(store, id, name) ==
  [i \in 1..Len(store) |->
     IF store[i]._id = id THEN [store[i] EXCEPT !.state_name = name] ELSE store[i]]

\* StateModel.findByIdAndRemove(id).
StateFindByIdAndRemove(store, id) == SelectSeq(store, LAMBDA d : d._id # id)

notFoundResponse(msg) ==
  [kind |-> "notFound", message |-> msg, errors |-> <<>>, data |-> NoData]

\* wrote counts the store writes the request had applied (history).
IdleStateReq ==
  [op |-> "idle", pc |-> "done", id |-> 0, state_name |-> <<>>,
   errors |-> <<>>, resps |-> <<>>, wrote |-> 0]

StateStoreInputs == [state_name : {Goa, GoaSpace, Go}]

StateUpdateInputs == [id : {0, 2}, state_name : {Goa}] \cup {[id |-> 2, state_name |-> <<>>]}

StateDeleteInputs == [id : {0, 1, 3}]

\* The data of the success responses: new StateData(category).
StateData(doc) == [id |-> doc._id, state_name |-> doc.state_name]

\* StateStore arrives: isLength({ min: 3 }) on the raw value, trim, escape,
\* then the custom validator queries the store.  The document the handler
\* will build gets a fresh _id.
StateStore(r, in) ==
  /\ FreeSlot(r)
  /\ nsub' = nsub + 1
  /\ req' = [req EXCEPT ![r] =
       [IdleStateReq EXCEPT
          !.op = "StateStore", !.pc = "nameInUse", !.id = nsub + 3,
          !.state_name = Sanitize(in.state_name),
          !.errors = Errs(Len(in.state_name) < MinStoreNameLength,
                          "Minimum 3 characters.", FALSE, "")]]
  /\ UNCHANGED <<admins, mails, states>>

\* The custom validator settles (a hit, or a failed query, rejects) and the
\* handler runs: validation errors end the request, otherwise save is issued.
StateStoreNameInUse(r) ==
  /\ req[r].op = "StateStore" /\ req[r].pc = "nameInUse"
  /\ \E storeOk \in BOOLEAN :
       LET errs == req[r].errors
                   \o Errs(storeOk /\ StateFindOne(states, req[r].state_name) # NoState,
                           "State already exist with this name.",
                           ~storeOk, "StoreError")
       IN req' = [req EXCEPT ![r] =
            IF errs # <<>>
            THEN Respond([@ EXCEPT !.errors = errs],
                         validationErrorWithData("Validation Error.", errs), "done")
            ELSE [@ EXCEPT !.pc = "save"]]
  /\ UNCHANGED <<admins, mails, nsub, states>>

\* category.save settles.
StateStoreSave(r) ==
  /\ req[r].op = "StateStore" /\ req[r].pc = "save"
  /\ LET category == StateModel(req[r].id, req[r].state_name) IN
       \/ /\ states' = StateSave(states, category)
          /\ req' = [req EXCEPT ![r] =
               [Respond(@, successResponseWithData("State add Success.",
                                                   StateData(category)), "done")
                  EXCEPT !.wrote = @ + 1]]
       \/ /\ req' = [req EXCEPT ![r] = Respond(@, ErrorResponse("StoreError"), "done")]
          /\ UNCHANGED states
  /\ UNCHANGED <<admins, mails, nsub>>

\* StateUpdate arrives: isLength({ min: 1 }) and trim, no lookup by name;
\* then the test of the id, then findById is issued.
StateUpdate(r, in) ==
  /\ FreeSlot(r)
  /\ nsub' = nsub + 1
  /\ LET errs == Errs(Len(in.state_name) < MinUpdateNameLength,
                      "Name must not be empty.", FALSE, "")
         rq == [IdleStateReq EXCEPT
                  !.op = "StateUpdate", !.pc = "findById", !.id = in.id,
                  !.state_name = Trim(in.state_name), !.errors = errs]
     IN req' = [req EXCEPT ![r] =
          IF errs # <<>>
          THEN Respond(rq, validationErrorWithData("Validation Error.", errs), "done")
          ELSE IF ~IsValidId(in.id)
          THEN Respond(rq, validationErrorWithData("Invalid Error.", <<"Invalid ID">>), "done")
          ELSE rq]
  /\ UNCHANGED <<admins, mails, states>>

\* findById settles: null is answered not found; a document, or an error
\* (foundCategory is then undefined, which is not null), goes on to the update.
StateUpdateFindById(r) ==
  /\ req[r].op = "StateUpdate" /\ req[r].pc = "findById"
  /\ \/ req' = [req EXCEPT ![r] =
          IF StateFindById(states, req[r].id) = NoState
          THEN Respond(@, notFoundResponse("State not exists with this id"), "done")
          ELSE [@ EXCEPT !.pc = "update"]]
     \/ req' = [req EXCEPT ![r] = [@ EXCEPT !.pc = "update"]]
  /\ UNCHANGED <<admins, mails, nsub, states>>

\* findByIdAndUpdate settles.
StateUpdateApply(r) ==
  /\ req[r].op = "StateUpdate" /\ req[r].pc = "update"
  /\ \/ /\ states' = StateFindByIdAndUpdate(states, req[r].id, req[r].state_name)
        /\ req' = [req EXCEPT ![r] =
             [Respond(@, successResponseWithData("State update Success.",
                           StateData(StateModel(req[r].id, req[r].state_name))), "done")
                EXCEPT !.wrote = @ + 1]]
     \/ /\ req' = [req EXCEPT ![r] = Respond(@, ErrorResponse("StoreError"), "done")]
        /\ UNCHANGED states
  /\ UNCHANGED <<admins, mails, nsub>>

\* StateDelete arrives: the test of the id, then findById is issued.
StateDelete(r, in) ==
  /\ FreeSlot(r)
  /\ nsub' = nsub + 1
  /\ LET rq == [IdleStateReq EXCEPT
                  !.op = "StateDelete", !.pc = "findById", !.id = in.id]
     IN req' = [req EXCEPT ![r] =
          IF ~IsValidId(in.id)
          THEN Respond(rq, validationErrorWithData("Invalid Error.", <<"Invalid ID">>), "done")
          ELSE rq]
  /\ UNCHANGED <<admins, mails, states>>

\* findById settles, as in StateUpdate.
StateDeleteFindById(r) ==
  /\ req[r].op = "StateDelete" /\ req[r].pc = "findById"
  /\ \/ req' = [req EXCEPT ![r] =
          IF StateFindById(states, req[r].id) = NoState
          THEN Respond(@, notFoundResponse("State not exists with this id"), "done")
          ELSE [@ EXCEPT !.pc = "remove"]]
     \/ req' = [req EXCEPT ![r] = [@ EXCEPT !.pc = "remove"]]
  /\ UNCHANGED <<admins, mails, nsub, states>>

\* findByIdAndRemove settles.
StateDeleteRemove(r) ==
  /\ req[r].op = "StateDelete" /\ req[r].pc = "remove"
  /\ \/ /\ states' = StateFindByIdAndRemove(states, req[r].id)
        /\ req' = [req EXCEPT ![r] =
             [Respond(@, successResponse("State delete Success."), "done")
                EXCEPT !.wrote = @ + 1]]
     \/ /\ req' = [req EXCEPT ![r] = Respond(@, ErrorResponse("StoreError"), "done")]
        /\ UNCHANGED states
  /\ UNCHANGED <<admins, mails, nsub>>

\* The states collection before the first request: empty, or two states.
InitialStates == {<<>>, <<StateModel(1, Goa), StateModel(2, Kerala)>>}

StateInit ==
  /\ admins = <<>>
  /\ mails = <<>>
  /\ req = [r \in Slots |-> IdleStateReq]
  /\ nsub = 0
  /\ states \in InitialStates

StateNext ==
  \/ \E r \in Slots, in \in StateStoreInputs : StateStore(r, in)
  \/ \E r \in Slots : StateStoreNameInUse(r)
  \/ \E r \in Slots : StateStoreSave(r)
  \/ \E r \in Slots, in \in StateUpdateInputs : StateUpdate(r, in)
  \/ \E r \in Slots : StateUpdateFindById(r)
  \/ \E r \in Slots : StateUpdateApply(r)
  \/ \E r \in Slots, in \in StateDeleteInputs : StateDelete(r, in)
  \/ \E r \in Slots : StateDeleteFindById(r)
  \/ \E r \in Slots : StateDeleteRemove(r)

StateSpec == StateInit /\ [][StateNext]_vars


\* ------------------------------------------------------------- properties
\* The envelopes of a request that carry a token.
Tokens(rq) == {i \in 1..Len(rq.resps) : rq.resps[i].data.token # NoToken}

\* A login request that has loaded an account whose hash its password matches.
LoginMatched(rq) ==
  /\ rq.op = "login"
  /\ rq.user # NoUser
  /\ BcryptCompare(rq.password, rq.user.password)

\* C1: a login whose password matches the hash of an account loaded with
\* isConfirmed = false is answered, once, Unauthorized "Account is not
\* confirmed", whatever the account's status and is_active; it gets no
\* token, has no mail sent and writes nothing to the store.
C1_UnconfirmedLoginRefused ==
  \A r \in Slots :
    (LoginMatched(req[r]) /\ ~req[r].user.isConfirmed) =>
      /\ req[r].pc \in {"compare", "done"}
      /\ req[r].pc = "done" =>
           req[r].resps = <<unauthorizedResponse(
                              "Account is not confirmed. Please confirm your account.")>>
      /\ Tokens(req[r]) = {}
      /\ req[r].sent = 0
      /\ req[r].wrote = 0

\* The refusal of an unconfirmed account whose status is false.
C1_Witness ==
  \E r \in Slots :
    /\ LoginMatched(req[r]) /\ ~req[r].user.isConfirmed /\ ~req[r].user.status
    /\ req[r].pc = "done"
    /\ req[r].resps # <<>>

\* C2: no login gets a token for an account loaded with the active flag that
\* login tests (status) false; with a matching password and isConfirmed true
\* the one answer is Unauthorized "Account is not active".
C2_InactiveLoginRefused ==
  \A r \in Slots :
    (req[r].op = "login" /\ req[r].user # NoUser /\ ~req[r].user.status) =>
      /\ Tokens(req[r]) = {}
      /\ req[r].sent = 0
      /\ (LoginMatched(req[r]) /\ req[r].user.isConfirmed) =>
           /\ req[r].pc \in {"compare", "done"}
           /\ req[r].pc = "done" =>
                req[r].resps = <<unauthorizedResponse(
                                   "Account is not active. Please contact admin.")>>

\* The refusal of a confirmed account whose status is false.
C2_Witness ==
  \E r \in Slots :
    /\ LoginMatched(req[r]) /\ req[r].user.isConfirmed /\ ~req[r].user.status
    /\ req[r].pc = "done"
    /\ req[r].resps # <<>>

\* A login that passed validation and was answered after its lookup found no
\* account (Absent), or found one whose hash the password does not match.
LoginAbsent(rq) ==
  rq.op = "login" /\ rq.pc = "done" /\ rq.errors = <<>> /\ rq.user = NoUser

LoginMismatch(rq) ==
  /\ rq.op = "login" /\ rq.pc = "done" /\ rq.user # NoUser
  /\ ~BcryptCompare(rq.password, rq.user.password)

\* C3: whether the email has no account or the password does not match the
\* account's hash, login gives the same single answer, Unauthorized "Email or
\* Password wrong.", with no token, no mail sent and no store write.
C3_LoginSameAnswer ==
  \A r \in Slots :
    (LoginAbsent(req[r]) \/ LoginMismatch(req[r])) =>
      /\ req[r].resps = <<unauthorizedResponse("Email or Password wrong.")>>
      /\ Tokens(req[r]) = {}
      /\ req[r].sent = 0
      /\ req[r].wrote = 0

\* Two answered logins for the same email and password, one from a store
\* without the account and one from a store with it, with equal answers.
C3_Witness ==
  \E r, q \in Slots :
    /\ LoginAbsent(req[r]) /\ LoginMismatch(req[q])
    /\ req[r].email_id = req[q].email_id /\ req[r].password = req[q].password
    /\ req[r].resps = req[q].resps

\* C4: a register request whose email or phone number belonged to a stored
\* account when it arrived is answered, once, with a validation error; it has
\* no mail sent and adds nothing to the store.
C4_DuplicateRegisterRejected ==
  \A r \in Slots :
    (req[r].op = "register" /\ req[r].inUse) =>
      /\ req[r].pc \in {"emailInUse", "phoneInUse", "done"}
      /\ req[r].pc = "done" =>
           /\ req[r].errors # <<>>
           /\ req[r].resps = <<validationErrorWithData("Validation Error.", req[r].errors)>>
      /\ req[r].sent = 0
      /\ req[r].wrote = 0

\* A rejected register whose email is free and whose phone number is taken.
C4_Witness ==
  \E r \in Slots :
    /\ req[r].op = "register" /\ req[r].inUse /\ req[r].pc = "done"
    /\ FindOneByEmail(admins, req[r].email_id) = NoUser
    /\ req[r].errors = <<"Phone number already in use">>


\* A string of OtpLength decimal digits.
IsOtp(str) == Len(str) = OtpLength /\ \A i \in 1..Len(str) : str[i] \in DigitChars

\* C5: the account a successful register has stored is unconfirmed
\* (isConfirmed = false) and carries a 6-digit numeric confirmOTP.
C5_RegisteredUnconfirmed ==
  \A r \in Slots :
    (req[r].op = "register" /\ req[r].wrote = 1) =>
      /\ ~req[r].user.isConfirmed
      /\ IsOtp(req[r].user.confirmOTP)

\* A verifyConfirm request that has loaded an account whose stored code is
\* not the code submitted.
VerifyMismatch(rq) ==
  rq.op = "verifyConfirm" /\ rq.user # NoUser /\ rq.user.confirmOTP # rq.otp

\* C6: a verifyConfirm on an existing account with a code that is not the
\* stored confirmOTP is answered, once, Unauthorized "Otp does not match";
\* it gets no token and writes nothing (isConfirmed and confirmOTP stay).
C6_WrongOtpRefused ==
  \A r \in Slots :
    VerifyMismatch(req[r]) =>
      /\ req[r].pc = "done"
      /\ req[r].resps = <<unauthorizedResponse("Otp does not match")>>
      /\ Tokens(req[r]) = {}
      /\ req[r].wrote = 0
      /\ req[r].sent = 0

\* A refused verifyConfirm against a stored code of six digits.
C6_Witness ==
  \E r \in Slots :
    /\ VerifyMismatch(req[r]) /\ IsOtp(req[r].user.confirmOTP) /\ IsOtp(req[r].otp)
    /\ req[r].resps # <<>>

\* C7: at the moment verifyConfirm answers success with a token, the account
\* of the submitted email is stored with isConfirmed = true and confirmOTP
\* null, and the token's claims are the identity of the account found.
C7_VerifySuccessStored ==
  [][\A r \in Slots :
       (/\ req[r].op = "verifyConfirm" /\ req[r].pc = "findOne"
        /\ Tokens(req'[r]) # {}) =>
         LET stored == FindOneByEmail(admins', req'[r].email_id) IN
           /\ stored.isConfirmed
           /\ stored.confirmOTP = Null
           /\ req'[r].resps[1].data.token = JwtSign(stored)]_vars

\* The account with the _id of a loaded document.
FindById(store, id) ==
  LET hits == {i \in 1..Len(store) : store[i]._id = id} IN
    IF hits = {} THEN NoUser ELSE store[CHOOSE i \in hits : TRUE]

\* C8: when resendConfirmOtp answers success, a new code has been mailed to
\* the address and the account is stored with that code as confirmOTP and
\* with isConfirmed = false; the answer is a plain acknowledgment, no token.
C8_ResendStoresUnconfirmed ==
  [][\A r \in Slots :
       (/\ req[r].op = "resendConfirmOtp" /\ req[r].pc = "save"
        /\ req'[r].resps # <<>> /\ req'[r].resps[1].kind = "success") =>
         LET stored == FindById(admins', req'[r].user._id) IN
           /\ req'[r].resps = <<successResponse("Confirm otp sent.")>>
           /\ Mail(req'[r].email_id, LoginHtml(req'[r].code)) \in
                {mails'[i] : i \in 1..Len(mails')}
           /\ stored.confirmOTP = NumToStr(req'[r].code)
           /\ ~stored.isConfirmed]_vars

\* C9: no two stored accounts have the same email.
C9_UniqueEmail ==
  \A i, j \in 1..Len(admins) : admins[i].email_id = admins[j].email_id => i = j

\* Whether a login or resend mail was delivered to an address.
LoginOrResendMailed(to) ==
  \E i \in 1..Len(mails) :
    mails[i].to = to /\ mails[i].html.template = "Please Login your Account."

\* A register request that has succeeded: its mail was delivered with the
\* code it drew and its document stored.
Registered(rq) ==
  /\ rq.op = "register" /\ rq.pc = "done" /\ rq.wrote = 1
  /\ Mail(rq.email_id, ConfirmHtml(rq.code)) \in {mails[i] : i \in 1..Len(mails)}

\* The lookup of verifyConfirm request r runs in this step, for the code
\* mailed by a register that has succeeded for the same email, with no login
\* or resend mail to the address since and the stored code not yet used up.
VerifiesRegistrationCode(r) ==
  /\ req[r].op = "verifyConfirm" /\ req[r].pc = "findOne"
  /\ req'[r].user # NoUser
  /\ req'[r].user.confirmOTP # Null
  /\ ~LoginOrResendMailed(req[r].email_id)
  /\ \E q \in Slots :
       /\ Registered(req[q])
       /\ req[q].email_id = req[r].email_id
       /\ ConfirmHtml(req[q].code).otp = req[r].otp

\* C10: after a successful register and with no login or resendConfirmOtp
\* for the email since, a verifyConfirm with the code mailed at registration
\* (the stored code not yet used up by an earlier verifyConfirm) succeeds: it
\* is answered with a token and the account is stored confirmed.
C10_RegistrationCodeVerifies ==
  [][\A r \in Slots :
       VerifiesRegistrationCode(r) =>
         /\ Tokens(req'[r]) = {1}
         /\ req'[r].resps[1].kind = "success"
         /\ FindOneByEmail(admins', req[r].email_id).isConfirmed]_vars

\* A verifyConfirm request that was answered with a token.
VerifySucceeded(rq) == rq.op = "verifyConfirm" /\ Tokens(rq) # {}

\* Whether any mail, and so any code, has been delivered to an address: every
\* handler that stores a code mails it first.
Issued(to) == \E i \in 1..Len(mails) : mails[i].to = to

\* C11: a code is good for one verifyConfirm: while no new code has been
\* issued to the address, no two verifyConfirm requests for it succeed with
\* the same code.
C11_OtpOneTime ==
  \A r, q \in Slots :
    (/\ r # q
     /\ VerifySucceeded(req[r]) /\ VerifySucceeded(req[q])
     /\ req[r].email_id = req[q].email_id
     /\ req[r].otp = req[q].otp) =>
      Issued(req[r].email_id)

\* C12: a request makes one response: no request has made more than one
\* call on apiResponse, and one whose handler has run to its end has made
\* exactly one (never a success followed by an error).
C12_OneEnvelope ==
  \A r \in Slots :
    /\ Len(req[r].resps) <= 1
    /\ (req[r].op # "idle" /\ req[r].pc = "done") => Len(req[r].resps) = 1

\* A request that a failed lookup or a failed delivery has ended: a login or
\* resendConfirmOtp whose promise rejected, a register whose validator
\* lookup was rejected or whose mail was not delivered.
InfraFailed(rq) ==
  \/ rq.pc = "lost"
  \/ /\ rq.op = "register" /\ rq.pc = "done"
     /\ \/ \E i \in 1..Len(rq.errors) : rq.errors[i] = "StoreError"
        \/ rq.errors = <<>> /\ rq.sent = 0

\* C13: a register, login or resendConfirmOtp request ended by a failed
\* store lookup or a failed mail delivery has been answered, and with the
\* server-error envelope.
C13_FailureAnswered ==
  \A r \in Slots :
    InfraFailed(req[r]) =>
      /\ req[r].resps # <<>>
      /\ req[r].resps[Len(req[r].resps)].kind = "error"

\* C14: at the moment login answers success with a token, the code mailed by
\* that login is stored as the account's confirmOTP, with isConfirmed = true.
C14_LoginPersistsBeforeToken ==
  [][\A r \in Slots :
       (/\ req[r].op = "login" /\ req[r].pc = "mail"
        /\ Tokens(req'[r]) # {}) =>
         LET stored == FindOneByEmail(admins', req'[r].email_id) IN
           /\ Mail(req'[r].email_id, LoginHtml(req'[r].code)) \in
                {mails'[i] : i \in 1..Len(mails')}
           /\ stored.confirmOTP = NumToStr(req'[r].code)
           /\ stored.isConfirmed]_vars

\* Whether the confirmation mail of a register request is among the delivered.
ConfirmMailed(rq) ==
  Mail(rq.email_id, ConfirmHtml(rq.code)) \in {mails[i] : i \in 1..Len(mails)}

\* C15: register runs uniqueness checks, hash, notify, persist in that order:
\* the document is built only after the validators have passed, the mail is
\* sent only for a built document, the save is issued and the account stored
\* only after the mail was delivered; a failed delivery stores nothing and is
\* answered with the error envelope.
C15_RegisterOrder ==
  \A r \in Slots :
    req[r].op = "register" =>
      /\ req[r].user # NoUser =>
           /\ req[r].pc \in {"mail", "save", "done"}
           /\ req[r].errors = <<>>
      /\ req[r].sent = 1 => req[r].user # NoUser /\ ConfirmMailed(req[r])
      /\ (req[r].pc = "save" \/ req[r].wrote = 1) => req[r].sent = 1
      /\ req[r].wrote = 1 => FindById(admins, req[r].user._id) # NoUser
      /\ (req[r].pc = "done" /\ req[r].errors = <<>> /\ req[r].sent = 0) =>
           /\ req[r].resps = <<ErrorResponse("DeliveryError")>>
           /\ req[r].wrote = 0
           /\ FindById(admins, req[r].user._id) = NoUser

\* A register that passed validation, whose mail was not delivered, answered.
C15_Witness ==
  \E r \in Slots :
    /\ req[r].op = "register" /\ req[r].pc = "done"
    /\ req[r].user # NoUser /\ req[r].sent = 0
    /\ req[r].resps # <<>>

\* C16: a register whose mail was delivered and whose save failed is answered
\* with the error envelope and nothing else; its document is not in the
\* collection and its mail stays delivered.
C16_SaveFailureReported ==
  \A r \in Slots :
    (/\ req[r].op = "register" /\ req[r].pc = "done"
     /\ req[r].sent = 1 /\ req[r].wrote = 0) =>
      /\ req[r].resps = <<ErrorResponse("StoreError")>>
      /\ FindById(admins, req[r].user._id) = NoUser
      /\ ConfirmMailed(req[r])

\* A register answered after a delivered mail and a failed save, while no
\* account of its email is stored.
C16_Witness ==
  \E r \in Slots :
    /\ req[r].op = "register" /\ req[r].pc = "done"
    /\ req[r].sent = 1 /\ req[r].wrote = 0
    /\ req[r].resps # <<>>
    /\ FindOneByEmail(admins, req[r].email_id) = NoUser

\* C16 as stated: when a register is answered for a failed save after a
\* delivered mail, no account of its email is in the collection.
C16_NoAccountForEmail ==
  [][\A r \in Slots :
       (/\ req[r].op = "register" /\ req[r].pc = "save"
        /\ req'[r].pc = "done" /\ req'[r].wrote = 0) =>
         /\ req'[r].resps = <<ErrorResponse("StoreError")>>
         /\ ConfirmMailed(req[r])'
         /\ FindOneByEmail(admins', req[r].email_id) = NoUser]_vars

\* C17: a request with a validation error has no mail sent and no store
\* write applied, has loaded or built no document and drawn no code, is never
\* left unanswered, and once its handler has run is answered with the
\* validation error envelope listing the errors, and nothing else.
C17_ValidationNoMutation ==
  \A r \in Slots :
    req[r].errors # <<>> =>
      /\ req[r].sent = 0
      /\ req[r].wrote = 0
      /\ req[r].user = NoUser
      /\ req[r].code = 0
      /\ req[r].pc # "lost"
      /\ req[r].op # "register" => req[r].pc = "done"
      /\ req[r].pc = "done" =>
           req[r].resps = <<validationErrorWithData("Validation Error.", req[r].errors)>>

\* A register answered for a malformed email and a request of another
\* handler answered for a validation error, with an account in the collection.
C17_Witness ==
  \E r, q \in Slots :
    /\ req[r].op = "register" /\ req[r].pc = "done"
    /\ req[q].op \in {"login", "verifyConfirm", "resendConfirmOtp"}
    /\ \E i \in 1..Len(req[r].errors) :
         req[r].errors[i] = "Email must be a valid email address."
    /\ req[q].errors # <<>> /\ req[q].resps # <<>>
    /\ Len(admins) > 0

\* Request r is a resendConfirmOtp, started on an account it loaded confirmed
\* and with status set, that is answered success in this step.
ResendUnconfirms(r) ==
  /\ req[r].op = "resendConfirmOtp" /\ req[r].pc = "save"
  /\ req[r].user.isConfirmed /\ req[r].user.status
  /\ req'[r].resps = <<successResponse("Confirm otp sent.")>>

\* A resendConfirmOtp, started on the account when confirmed and with status
\* set, has been answered success.
ResendUnconfirmed(account) ==
  \E q \in Slots :
    /\ req[q].op = "resendConfirmOtp" /\ req[q].pc = "done" /\ req[q].wrote = 1
    /\ req[q].user._id = account._id
    /\ req[q].user.isConfirmed /\ req[q].user.status

\* Request r is a verifyConfirm, answered success for the code the account
\* carries, whose update is applied in this step.
VerifyConfirms(r, account) ==
  /\ req[r].op = "verifyConfirm" /\ req[r].pc = "update" /\ req'[r].pc = "done"
  /\ req[r].email_id = account.email_id
  /\ req[r].otp = account.confirmOTP
  /\ req'[r].wrote = req[r].wrote + 1

\* C18: the confirmation flag cycles: a successful resendConfirmOtp on a
\* confirmed, active account leaves it stored unconfirmed, so that login
\* (which refuses what it loads unconfirmed) fails, and after such a resend
\* the stored unconfirmed account becomes confirmed again only through a
\* verifyConfirm that succeeded with the code the account carries.
C18_ConfirmationCycle ==
  [][/\ \A r \in Slots :
          ResendUnconfirms(r) => ~FindById(admins', req[r].user._id).isConfirmed
     /\ \A i \in 1..Len(admins) :
          (/\ ResendUnconfirmed(admins[i])
           /\ ~admins[i].isConfirmed /\ admins'[i].isConfirmed) =>
            \E r \in Slots : VerifyConfirms(r, admins[i])]_vars

\* A verifyConfirm on the account has been refused for its code.
VerifyRefused(account) ==
  \E q \in Slots :
    /\ VerifyMismatch(req[q]) /\ req[q].pc = "done"
    /\ req[q].user._id = account._id

\* C19: no attempt limit: the otpTries of a stored account never changes and
\* a new account has none; and a verifyConfirm whose lookup, in this step,
\* finds the account carrying the submitted code succeeds, with a token, after
\* verifyConfirm requests on that account have been refused.
C19_NoAttemptLimit ==
  [][/\ \A i \in 1..Len(admins) : admins'[i].otpTries = admins[i].otpTries
     /\ \A i \in 1..Len(admins') : i > Len(admins) => admins'[i].otpTries = 0
     /\ \A r \in Slots :
          LET account == FindOneByEmail(admins, req[r].email_id) IN
            (/\ req[r].op = "verifyConfirm" /\ req[r].pc = "findOne"
             /\ req'[r].pc \notin {"findOne", "lost"}
             /\ account # NoUser
             /\ VerifyRefused(account)
             /\ LooseEquals(account.confirmOTP, req[r].otp)) =>
              /\ Tokens(req'[r]) = {1}
              /\ req'[r].resps[1].kind = "success"
              /\ req'[r].pc = "update"]_vars

\* A verifyConfirm answered with a token for the code an account carries,
\* beside a refused verifyConfirm on the same account.
C19_Witness ==
  \E r \in Slots :
    /\ VerifySucceeded(req[r]) /\ req[r].pc = "update"
    /\ VerifyRefused(req[r].user)
    /\ FindById(admins, req[r].user._id).confirmOTP = req[r].otp

\* An account with its two confirmation paths taken from another.
WithConfirmation(account, from) ==
  [account EXCEPT !.isConfirmed = from.isConfirmed, !.confirmOTP = from.confirmOTP]

\* C20: accounts are created by register only and never deleted: every step
\* keeps each stored account in its place with at most isConfirmed and
\* confirmOTP changed, a step that adds an account is the save of a register
\* request and adds that request's document, changing no other account, and
\* a step that changes a stored account is a write of login, verifyConfirm
\* or resendConfirmOtp.
C20_AccountsOnlyGrow ==
  [][/\ Len(admins') >= Len(admins)
     /\ \A i \in 1..Len(admins) : admins'[i] = WithConfirmation(admins[i], admins'[i])
     /\ Len(admins') > Len(admins) =>
          /\ \E r \in Slots :
               /\ req[r].op = "register" /\ req[r].pc = "save"
               /\ admins' = Append(admins, req[r].user)
     /\ (\E i \in 1..Len(admins) : admins'[i] # admins[i]) =>
          \E r \in Slots :
            /\ req[r].op \in {"login", "verifyConfirm", "resendConfirmOtp"}
            /\ req'[r].wrote = req[r].wrote + 1]_vars

\* Two accounts, the second added by a register, the first with a code
\* written by a login or a resendConfirmOtp.
C20_Witness ==
  /\ Len(admins) = 2
  /\ \E r \in Slots : req[r].op = "register" /\ req[r].wrote = 1
  /\ \E i \in 1..Len(mails) :
       /\ mails[i].html.template = "Please Login your Account."
       /\ admins[1].confirmOTP = mails[i].html.otp

\* C21: no token for an inactive account: the account a request was answered
\* with a token for has status and is_active set, in login as in
\* verifyConfirm.
C21_NoTokenForInactive ==
  \A r \in Slots :
    Tokens(req[r]) # {} =>
      /\ req[r].user.status
      /\ req[r].user.is_active

\* The codes of the mails delivered to an address, in order of delivery.
MailedCodes(to) ==
  LET RECURSIVE Codes(_)
      Codes(n) == IF n = 0 THEN <<>>
                  ELSE IF mails[n].to = to
                       THEN Append(Codes(n - 1), mails[n].html.otp)
                       ELSE Codes(n - 1)
  IN Codes(Len(mails))

\* No request is in flight.
Quiescent == \A r \in Slots : req[r].pc \in Finished

\* C22: with no request in flight, the confirmOTP of an account to whose
\* address a mail has been delivered is null or the code of the last mail
\* delivered to the address.
C22_StoredCodeIsLastMailed ==
  Quiescent =>
    \A i \in 1..Len(admins) :
      LET codes == MailedCodes(admins[i].email_id) IN
        codes # <<>> =>
          \/ admins[i].confirmOTP = Null
          \/ admins[i].confirmOTP = codes[Len(codes)]

\* The update of login request r is applied in this step.
LoginUpdateApplied(r) ==
  /\ req[r].op = "login" /\ req[r].pc = "update"
  /\ req'[r].pc = "done" /\ req'[r].wrote = req[r].wrote + 1

\* The account is stored as a successful resendConfirmOtp wrote it:
\* unconfirmed and carrying the code of that resend.
HoldsResentCode(account) ==
  /\ ~account.isConfirmed
  /\ \E q \in Slots :
       /\ req[q].op = "resendConfirmOtp" /\ req[q].pc = "done" /\ req[q].wrote = 1
       /\ req[q].user._id = account._id
       /\ account.confirmOTP = NumToStr(req[q].code)

\* C23: a login's write does not undo a resend: when the update of a login
\* is applied to an account stored unconfirmed with the code of a successful
\* resendConfirmOtp, the account stays unconfirmed and keeps that code.
C23_LoginKeepsResend ==
  [][\A r \in Slots :
       LET account == FindOneByEmail(admins, req[r].email_id) IN
         (LoginUpdateApplied(r) /\ account # NoUser /\ HoldsResentCode(account)) =>
           LET after == FindById(admins', account._id) IN
             /\ ~after.isConfirmed
             /\ after.confirmOTP = account.confirmOTP]_vars

\* C24: state names are unique: no two documents of the states collection
\* have the same state_name.
C24_UniqueStateName ==
  \A i, j \in 1..Len(states) : states[i].state_name = states[j].state_name => i = j

====
